---- MODULE Spec2Model ----
(***************************************************************************)
(* A model of @reach/tabs (packages/tabs/src/index.tsx): the selection     *)
(* state of Tabs, the keyboard navigation of TabList, the focus effect of  *)
(* Tab and the two descendant registries (tabs, panels).                   *)
(*                                                                         *)
(* One user or owner event is handled in the "idle" phase; it is followed  *)
(* by one or more commits of the renderer.  A commit runs the layout       *)
(* effect of TabList and the update effect of every Tab against the values *)
(* of that render, and then applies the state update the layout effect     *)
(* queued, which leads to a further commit.                                *)
(***************************************************************************)
EXTENDS Integers, Sequences, FiniteSets, TLC

\* Bounds of the model.
MaxTabs == 3
MaxPanels == 2

\* `index: controlledIndex = undefined`: the value of an absent index prop.
Undefined == -2
\* The result of reading an array out of bounds, compared with an element.
NoElement == 0

\* Elements are named by their position in the document.
TabElements == 1..MaxTabs
PanelElements == 1..MaxPanels
\* The indices an owner supplies as index / defaultIndex; MaxTabs is beyond
\* every registry.
IndexValues == 0..MaxTabs
NavKeys == {"ArrowLeft", "ArrowRight", "ArrowDown", "Home", "End"}
Keys == NavKeys \cup {"Enter"}

VARIABLES
  tabs,             \* descendants of TabsDescendantsContext, in document order
  tabPanels,        \* descendants of TabPanelDescendantsContext
  selectedIndex,    \* useState(defaultIndex || 0)
  controlledIndex,  \* the index prop
  isControlled,     \* isControlled.current
  readOnly,         \* the readOnly prop
  userInteractedRef,\* userInteractedRef.current
  wasSelected,      \* per mounted Tab: isSelected at its last effect run
  phase,            \* "idle" | "commit"
  event,            \* the event being handled: kind, key, onSelectTab argument
  onChangeCalls,    \* arguments of the onChange calls made for this event
  focusCalls,       \* targets of the focus() calls made for this event
  threw,            \* the handler of this event threw a TypeError
  defaultPrevented  \* event.preventDefault() was called for this event

vars == <<tabs, tabPanels, selectedIndex, controlledIndex, isControlled, readOnly,
          userInteractedRef, wasSelected, phase, event, onChangeCalls, focusCalls,
          threw, defaultPrevented>>

----------------------------------------------------------------------------
\* Helpers over sequences.

Max(S) == CHOOSE x \in S : \A y \in S : y <= x
Min(S) == CHOOSE x \in S : \A y \in S : x <= y

RECURSIVE SortedSeq(_)
\* The set S of integers as an increasing sequence.
SortedSeq(S) == IF S = {} THEN <<>> ELSE <<Min(S)>> \o SortedSeq(S \ {Min(S)})

Elements(seq) == {seq[k].element : k \in 1..Len(seq)}

----------------------------------------------------------------------------
\* Descendant registries.

\* registerDescendant that appends the new item, in the order of registration.
registerDescendant_Appends(items, item) ==
  IF item.element \in Elements(items) THEN items ELSE Append(items, item)

\* registerDescendant: the new item goes in at its document position.
registerDescendant(items, item) ==
  IF item.element \in Elements(items)
    THEN items
    ELSE LET before == SelectSeq(items, LAMBDA d : d.element < item.element)
             after == SelectSeq(items, LAMBDA d : d.element > item.element)
         IN before \o <<item>> \o after

\* unregisterDescendant: the item is filtered out; later indices shift down.
unregisterDescendant(items, element) ==
  SelectSeq(items, LAMBDA d : d.element # element)

\* useDescendant: the index of an element in its registry, -1 when absent.
IndexOf(items, element) ==
  LET S == {n \in 0..(Len(items) - 1) : items[n + 1].element = element}
  IN IF S = {} THEN -1 ELSE Min(S)

\* focusNodes: the elements of the descendants that are not disabled.
focusNodes ==
  LET enabled == SelectSeq(tabs, LAMBDA d : ~d.disabled)
  IN [k \in 1..Len(enabled) |-> enabled[k].element]

----------------------------------------------------------------------------
\* Tabs.

\* context.selectedIndex
ContextSelectedIndex == IF isControlled THEN controlledIndex ELSE selectedIndex

\* descendants[i] is defined
InRange(i) == i \in 0..(Len(tabs) - 1)

\* Tab: isSelected = index === selectedIndex
TabIsSelected(element) == IndexOf(tabs, element) = ContextSelectedIndex

\* TabPanel: isSelected = index === selectedIndex; hidden = !isSelected
PanelIsSelected(element) == IndexOf(tabPanels, element) = ContextSelectedIndex

\* selectedPanelRef.current: the element of the selected panel, if any.
selectedPanelRef ==
  IF ContextSelectedIndex \in 0..(Len(tabPanels) - 1)
    THEN tabPanels[ContextSelectedIndex + 1].element
    ELSE NoElement

\* onSelectTab without the readOnly test.
onSelectTab_IgnoresReadOnly(index, feedback) ==
  /\ userInteractedRef' = TRUE
  /\ onChangeCalls' = <<index>>
  /\ IF ~isControlled
       THEN /\ selectedIndex' = index
            /\ UNCHANGED controlledIndex
       ELSE /\ controlledIndex' = IF feedback THEN index ELSE controlledIndex
            /\ UNCHANGED selectedIndex

\* onSelectTab with the test of isControlled.current inverted.
onSelectTab_InvertedMode(index, feedback) ==
  IF readOnly
    THEN /\ onChangeCalls' = <<>>
         /\ UNCHANGED <<userInteractedRef, selectedIndex, controlledIndex>>
    ELSE /\ userInteractedRef' = TRUE
         /\ onChangeCalls' = <<index>>
         /\ controlledIndex' = IF isControlled /\ feedback THEN index ELSE controlledIndex
         /\ selectedIndex' = IF isControlled THEN index ELSE selectedIndex

\* onSelectTab that sets the internal state in either mode.
onSelectTab_AlwaysSetsState(index, feedback) ==
  IF readOnly
    THEN /\ onChangeCalls' = <<>>
         /\ UNCHANGED <<userInteractedRef, selectedIndex, controlledIndex>>
    ELSE /\ userInteractedRef' = TRUE
         /\ onChangeCalls' = <<index>>
         /\ controlledIndex' = IF isControlled /\ feedback THEN index ELSE controlledIndex
         /\ selectedIndex' = index

\* context.onSelectTab; feedback says whether the owner's onChange supplies
\* the requested index as the new index prop.
onSelectTab(index, feedback) ==
  IF readOnly
    THEN /\ onChangeCalls' = <<>>
         /\ UNCHANGED <<userInteractedRef, selectedIndex, controlledIndex>>
    ELSE /\ userInteractedRef' = TRUE
         /\ onChangeCalls' = <<index>>
         /\ IF ~isControlled
              THEN /\ selectedIndex' = index
                   /\ UNCHANGED controlledIndex
              ELSE /\ controlledIndex' = IF feedback THEN index ELSE controlledIndex
                   /\ UNCHANGED selectedIndex

\* context.onFocusPanel: selectedPanelRef.current?.focus()
onFocusPanel ==
  focusCalls' = IF selectedPanelRef # NoElement
                  THEN <<[kind |-> "panel", element |-> selectedPanelRef]>>
                  ELSE <<>>

----------------------------------------------------------------------------
\* TabList.

\* focusNodes[k]
FocusNodeAt(k) ==
  IF k \in 0..(Len(focusNodes) - 1) THEN focusNodes[k + 1] ELSE NoElement

\* focusNodes.findIndex(element => element === descendants[selectedIndex].element)
selectedFocusIndex(sel) ==
  LET S == {k \in 0..(Len(focusNodes) - 1) : focusNodes[k + 1] = tabs[sel + 1].element}
  IN IF S = {} THEN -1 ELSE Min(S)

\* The loop over descendants: the last n whose element is the target, or -1.
LoopIndex(target) ==
  LET S == {n \in 0..(Len(tabs) - 1) : tabs[n + 1].element = target}
  IN IF S = {} THEN -1 ELSE Max(S)

\* getFocusIndices throws when descendants[selectedIndex] is undefined.
getFocusIndicesThrows(sel) == ~InRange(sel)

\* getFocusIndices without the wrap-around of prev and next.
getFocusIndices_NoWrap(sel) ==
  LET sfi == selectedFocusIndex(sel)
  IN [first |-> LoopIndex(FocusNodeAt(0)),
      last |-> LoopIndex(FocusNodeAt(Len(focusNodes) - 1)),
      prev |-> LoopIndex(FocusNodeAt(sfi - 1)),
      next |-> LoopIndex(FocusNodeAt(sfi + 1))]

\* getFocusIndices over the raw neighbours, the disabled tabs included.
getFocusIndices_RawNeighbours(sel) ==
  [first |-> 0,
   last |-> Len(tabs) - 1,
   prev |-> IF sel = 0 THEN Len(tabs) - 1 ELSE sel - 1,
   next |-> IF sel = Len(tabs) - 1 THEN 0 ELSE sel + 1]

\* getFocusIndices, for a selectedIndex with descendants[selectedIndex] defined.
getFocusIndices(sel) ==
  LET sfi == selectedFocusIndex(sel)
      first == LoopIndex(FocusNodeAt(0))
      last == LoopIndex(FocusNodeAt(Len(focusNodes) - 1))
      prev == LoopIndex(FocusNodeAt(sfi - 1))
      next == LoopIndex(FocusNodeAt(sfi + 1))
  IN [first |-> first,
      last |-> last,
      prev |-> IF prev = -1 THEN last ELSE prev,
      next |-> IF next = -1 THEN first ELSE next]

\* The key of handleKeyDown that selects, and the index it passes on.
KeyTarget(key, sel) ==
  LET f == getFocusIndices(sel)
  IN CASE key = "ArrowRight" -> f.next
       [] key = "ArrowLeft" -> f.prev
       [] key = "Home" -> f.first
       [] key = "End" -> f.last

\* handleKeyDown; the key press reaches the tab list from a tab that has focus.
handleKeyDown(key) ==
  /\ phase = "idle"
  /\ Len(tabs) >= 1
  /\ phase' = "commit"
  /\ UNCHANGED <<tabs, tabPanels, isControlled, readOnly, wasSelected>>
  /\ IF key \notin NavKeys
       THEN /\ event' = [kind |-> "key", key |-> key, req |-> Undefined]
            /\ onChangeCalls' = <<>> /\ focusCalls' = <<>>
            /\ threw' = FALSE /\ defaultPrevented' = FALSE
            /\ UNCHANGED <<userInteractedRef, selectedIndex, controlledIndex>>
       ELSE IF getFocusIndicesThrows(ContextSelectedIndex)
         THEN /\ event' = [kind |-> "key", key |-> key, req |-> Undefined]
              /\ onChangeCalls' = <<>> /\ focusCalls' = <<>>
              /\ threw' = TRUE /\ defaultPrevented' = FALSE
              /\ UNCHANGED <<userInteractedRef, selectedIndex, controlledIndex>>
         ELSE IF key = "ArrowDown"
           THEN /\ event' = [kind |-> "key", key |-> key, req |-> Undefined]
                /\ defaultPrevented' = TRUE
                /\ onFocusPanel
                /\ onChangeCalls' = <<>> /\ threw' = FALSE
                /\ UNCHANGED <<userInteractedRef, selectedIndex, controlledIndex>>
           ELSE /\ event' = [kind |-> "key", key |-> key,
                             req |-> KeyTarget(key, ContextSelectedIndex)]
                /\ \E feedback \in BOOLEAN :
                     onSelectTab(KeyTarget(key, ContextSelectedIndex), feedback)
                /\ focusCalls' = <<>>
                /\ threw' = FALSE /\ defaultPrevented' = FALSE

\* TabList's layout effect asks for a correction of the selection.
LayoutEffectCorrects ==
  /\ ~isControlled
  /\ InRange(ContextSelectedIndex)
  /\ tabs[ContextSelectedIndex + 1].disabled

\* The layout effect without the correction of a disabled selection.
TabListLayoutEffect_NoCorrection ==
  /\ UNCHANGED selectedIndex
  /\ phase' = "idle"

\* The layout effect without the test of isControlled.
TabListLayoutEffect_CorrectsControlled ==
  IF InRange(ContextSelectedIndex) /\ tabs[ContextSelectedIndex + 1].disabled
    THEN /\ selectedIndex' = getFocusIndices(ContextSelectedIndex).next
         /\ phase' = "commit"
    ELSE /\ UNCHANGED selectedIndex
         /\ phase' = "idle"

\* TabList: useIsomorphicLayoutEffect; the update it queues is applied after
\* the effects of this commit.
TabListLayoutEffect ==
  IF LayoutEffectCorrects
    THEN /\ selectedIndex' = getFocusIndices(ContextSelectedIndex).next
         /\ phase' = "commit"
    ELSE /\ UNCHANGED selectedIndex
         /\ phase' = "idle"

----------------------------------------------------------------------------
\* Tab.

\* The element of the tab that is selected in this render, if any.
SelectedTabElement ==
  IF InRange(ContextSelectedIndex)
    THEN tabs[ContextSelectedIndex + 1].element
    ELSE NoElement

\* The update effect without the reset of userInteractedRef.
TabUpdateEffect_KeepsFlag ==
  LET el == SelectedTabElement
      focuses == /\ el # NoElement
                 /\ ~wasSelected[el]
                 /\ userInteractedRef
  IN /\ focusCalls' = IF focuses
                        THEN Append(focusCalls, [kind |-> "tab", element |-> el])
                        ELSE focusCalls
     /\ UNCHANGED userInteractedRef
     /\ wasSelected' = [e \in DOMAIN wasSelected |-> TabIsSelected(e)]

\* Tab: useUpdateEffect(..., [isSelected]), over all mounted tabs.  The effect
\* of a tab runs when its isSelected changed since its last run.
TabUpdateEffect ==
  LET el == SelectedTabElement
      focuses == /\ el # NoElement
                 /\ ~wasSelected[el]
                 /\ userInteractedRef
  IN /\ IF focuses
          THEN /\ userInteractedRef' = FALSE
               /\ focusCalls' = Append(focusCalls, [kind |-> "tab", element |-> el])
          ELSE UNCHANGED <<userInteractedRef, focusCalls>>
     /\ wasSelected' = [e \in DOMAIN wasSelected |-> TabIsSelected(e)]

\* Tab: onClick = onSelect = onSelectTab(index)
Click(element) ==
  /\ phase = "idle"
  /\ element \in Elements(tabs)
  /\ event' = [kind |-> "click", key |-> "none", req |-> IndexOf(tabs, element)]
  /\ \E feedback \in BOOLEAN : onSelectTab(IndexOf(tabs, element), feedback)
  /\ focusCalls' = <<>>
  /\ threw' = FALSE /\ defaultPrevented' = FALSE
  /\ phase' = "commit"
  /\ UNCHANGED <<tabs, tabPanels, isControlled, readOnly, wasSelected>>

----------------------------------------------------------------------------
\* The renderer and the owner.

\* A commit whose correction goes through onSelectTab.
Commit_CorrectionNotifies ==
  /\ phase = "commit"
  /\ TabListLayoutEffect
  /\ IF LayoutEffectCorrects
       THEN /\ userInteractedRef' = TRUE
            /\ onChangeCalls' = Append(onChangeCalls, selectedIndex')
            /\ wasSelected' = [e \in DOMAIN wasSelected |-> TabIsSelected(e)]
            /\ UNCHANGED focusCalls
       ELSE /\ TabUpdateEffect
            /\ UNCHANGED onChangeCalls
  /\ UNCHANGED <<tabs, tabPanels, controlledIndex, isControlled, readOnly, event,
                 threw, defaultPrevented>>

\* One commit: layout effects, then the update effects of the tabs.
Commit ==
  /\ phase = "commit"
  /\ TabListLayoutEffect
  /\ TabUpdateEffect
  /\ UNCHANGED <<tabs, tabPanels, controlledIndex, isControlled, readOnly, event,
                 onChangeCalls, threw, defaultPrevented>>

\* What every event of the owner or the renderer leaves alone.
OwnerEvent(kind) ==
  /\ phase = "idle"
  /\ phase' = "commit"
  /\ event' = [kind |-> kind, key |-> "none", req |-> Undefined]
  /\ onChangeCalls' = <<>> /\ focusCalls' = <<>>
  /\ threw' = FALSE /\ defaultPrevented' = FALSE
  /\ UNCHANGED <<selectedIndex, isControlled, userInteractedRef>>

\* The owner of a controlled Tabs supplies another index.
SetIndex(v) ==
  /\ isControlled
  /\ v # controlledIndex
  /\ OwnerEvent("setIndex")
  /\ controlledIndex' = v
  /\ UNCHANGED <<tabs, tabPanels, readOnly, wasSelected>>

\* The owner changes the readOnly prop.
SetReadOnly(b) ==
  /\ b # readOnly
  /\ OwnerEvent("setReadOnly")
  /\ readOnly' = b
  /\ UNCHANGED <<tabs, tabPanels, controlledIndex, wasSelected>>

\* A Tab mounts: useDescendant registers it.  In its first render its index is
\* -1, and the first run of its update effect does nothing.
RegisterTab(element, disabled) ==
  /\ element \notin Elements(tabs)
  /\ OwnerEvent("registerTab")
  /\ tabs' = registerDescendant(tabs, [element |-> element, disabled |-> disabled])
  /\ wasSelected' = [e \in DOMAIN wasSelected \cup {element} |->
                       IF e = element THEN ContextSelectedIndex = -1 ELSE wasSelected[e]]
  /\ UNCHANGED <<tabPanels, controlledIndex, readOnly>>

\* A Tab unmounts.
UnregisterTab(element) ==
  /\ element \in Elements(tabs)
  /\ OwnerEvent("unregisterTab")
  /\ tabs' = unregisterDescendant(tabs, element)
  /\ wasSelected' = [e \in DOMAIN wasSelected \ {element} |-> wasSelected[e]]
  /\ UNCHANGED <<tabPanels, controlledIndex, readOnly>>

\* The disabled prop of a Tab changes: useDescendant unregisters the element
\* and registers it with the new value.
SetDisabled(element, disabled) ==
  /\ element \in Elements(tabs)
  /\ tabs[IndexOf(tabs, element) + 1].disabled # disabled
  /\ OwnerEvent("setDisabled")
  /\ tabs' = registerDescendant(unregisterDescendant(tabs, element),
                                [element |-> element, disabled |-> disabled])
  /\ UNCHANGED <<tabPanels, controlledIndex, readOnly, wasSelected>>

\* A TabPanel mounts.
RegisterPanel(element) ==
  /\ element \notin Elements(tabPanels)
  /\ OwnerEvent("registerPanel")
  /\ tabPanels' = registerDescendant(tabPanels, [element |-> element])
  /\ UNCHANGED <<tabs, controlledIndex, readOnly, wasSelected>>

\* A TabPanel unmounts.
UnregisterPanel(element) ==
  /\ element \in Elements(tabPanels)
  /\ OwnerEvent("unregisterPanel")
  /\ tabPanels' = unregisterDescendant(tabPanels, element)
  /\ UNCHANGED <<tabs, controlledIndex, readOnly, wasSelected>>

----------------------------------------------------------------------------
\* The registries a mount can produce: any set of elements, in document order.

TabLists ==
  UNION {{[k \in 1..Cardinality(S) |->
            [element |-> SortedSeq(S)[k], disabled |-> dis[SortedSeq(S)[k]]]] :
          dis \in [S -> BOOLEAN]} : S \in SUBSET TabElements}

PanelLists ==
  {[k \in 1..Cardinality(S) |-> [element |-> SortedSeq(S)[k]]] : S \in SUBSET PanelElements}

\* The state after the first renders of Tabs, before the first commit that sees
\* the registered descendants.  A controlled Tabs is given its index, an
\* uncontrolled one its defaultIndex.
Mount(tabLists, indexValues) ==
  /\ tabs \in tabLists
  /\ tabPanels \in PanelLists
  /\ isControlled \in BOOLEAN
  /\ selectedIndex \in IF isControlled THEN 0..1 ELSE indexValues
  /\ controlledIndex \in IF isControlled THEN indexValues ELSE {Undefined}
  /\ readOnly \in BOOLEAN
  /\ userInteractedRef = FALSE
  /\ wasSelected = [e \in Elements(tabs) |-> FALSE]
  /\ phase = "commit"
  /\ event = [kind |-> "mount", key |-> "none", req |-> Undefined]
  /\ onChangeCalls = <<>>
  /\ focusCalls = <<>>
  /\ threw = FALSE
  /\ defaultPrevented = FALSE

Init == Mount(TabLists, IndexValues)

Next ==
  \/ \E element \in TabElements : Click(element)
  \/ \E key \in Keys : handleKeyDown(key)
  \/ Commit
  \/ \E v \in IndexValues : SetIndex(v)
  \/ \E b \in BOOLEAN : SetReadOnly(b)
  \/ \E element \in TabElements, disabled \in BOOLEAN : RegisterTab(element, disabled)
  \/ \E element \in TabElements : UnregisterTab(element)
  \/ \E element \in TabElements, disabled \in BOOLEAN : SetDisabled(element, disabled)
  \/ \E element \in PanelElements : RegisterPanel(element)
  \/ \E element \in PanelElements : UnregisterPanel(element)

Spec == Init /\ [][Next]_vars

----------------------------------------------------------------------------
\* Keyboard navigation over a fixed list of NavTabs tabs, each enabled or
\* disabled: the tab lists that the navigation scenarios need.

NavTabs == 4

NavTabLists ==
  {[k \in 1..NavTabs |-> [element |-> k, disabled |-> dis[k]]] :
     dis \in [1..NavTabs -> BOOLEAN]}

InitNav == Mount(NavTabLists, 0..NavTabs)

NextNav ==
  \/ \E element \in 1..NavTabs : Click(element)
  \/ \E key \in Keys : handleKeyDown(key)
  \/ Commit
  \/ \E v \in 0..NavTabs : SetIndex(v)

SpecNav == InitNav /\ [][NextNav]_vars

----------------------------------------------------------------------------
\* Properties.

\* The keys that request a selection.
SelectKeys == {"ArrowLeft", "ArrowRight", "Home", "End"}

\* The event is a click on a tab or a key press on the tab list.
UserEvent(ev) == ev.kind \in {"click", "key"}

\* The event is a click or a press of a selecting key: a selection request.
SelectionRequest(ev) ==
  \/ ev.kind = "click"
  \/ ev.kind = "key" /\ ev.key \in SelectKeys

\* The event called onSelectTab: requestSelect(ev.req).
Requested(ev) == SelectionRequest(ev) /\ ev.req # Undefined

\* The raw indices of the enabled tabs.
EnabledIndices == {n \in 0..(Len(tabs) - 1) : ~tabs[n + 1].disabled}

\* C1: while readOnly is true, a click on a tab or a key press on the tab list,
\* and the commit that follows it, leave the internal selected index, the index
\* prop and userInteractedRef as they were and make no onChange call, in either
\* mode.
C1_ReadOnlyIgnoresRequests ==
  [][(readOnly /\ UserEvent(event'))
       => /\ selectedIndex' = selectedIndex
          /\ controlledIndex' = controlledIndex
          /\ ContextSelectedIndex' = ContextSelectedIndex
          /\ userInteractedRef' = userInteractedRef
          /\ onChangeCalls' = <<>>]_vars

\* C1 witness: a read-only uncontrolled Tabs has handled ArrowRight, which asked
\* for another registered tab, and nothing was selected or reported.
C1_Witness ==
  /\ phase = "idle"
  /\ readOnly
  /\ ~isControlled
  /\ event.kind = "key" /\ event.key = "ArrowRight"
  /\ InRange(event.req)
  /\ event.req # ContextSelectedIndex
  /\ onChangeCalls = <<>>

\* C2: in an uncontrolled Tabs that is not read-only, a selection request for a
\* registered index i sets the selected index to i and calls onChange(i), once;
\* the commits that follow make no further onChange call, and the selection
\* is still i after them when tab i is enabled.
C2_UncontrolledSelect ==
  /\ [][/\ (phase = "idle" /\ ~isControlled /\ ~readOnly
             /\ SelectionRequest(event') /\ InRange(event'.req))
            => /\ selectedIndex' = event'.req
               /\ ContextSelectedIndex' = event'.req
               /\ onChangeCalls' = <<event'.req>>
        /\ (phase = "commit") => (onChangeCalls' = onChangeCalls)]_vars
  /\ [](( /\ phase = "idle" /\ ~isControlled /\ ~readOnly
          /\ SelectionRequest(event) /\ event.req \in EnabledIndices)
        => (ContextSelectedIndex = event.req /\ onChangeCalls = <<event.req>>))

\* C2 witness: an uncontrolled Tabs has handled a click on the tab at index 2,
\* which is now selected, and onChange(2) was called once.
C2_Witness ==
  /\ phase = "idle"
  /\ ~isControlled /\ ~readOnly
  /\ event.kind = "click" /\ event.req = 2
  /\ selectedIndex = 2
  /\ InRange(2)
  /\ onChangeCalls = <<2>>

\* C3: in a controlled Tabs no step changes the internal selected index; a
\* selection request on a Tabs that is not read-only calls onChange with the
\* requested index; and the selected index the context reports changes only
\* when the owner supplies an index (in its onChange or on its own).
C3_ControlledSelect ==
  [][isControlled
       => /\ selectedIndex' = selectedIndex
          /\ (phase = "idle" /\ ~readOnly /\ Requested(event'))
               => onChangeCalls' = <<event'.req>>
          /\ ContextSelectedIndex' # ContextSelectedIndex
               => \/ event'.kind = "setIndex"
                  \/ Requested(event') /\ controlledIndex' = event'.req]_vars

\* C3 witness: a controlled Tabs has handled a click on another tab; onChange
\* got its index, the owner did not supply it, and the reported index is still
\* the owner's.
C3_Witness ==
  /\ phase = "idle"
  /\ isControlled /\ ~readOnly
  /\ event.kind = "click"
  /\ InRange(event.req)
  /\ onChangeCalls = <<event.req>>
  /\ ContextSelectedIndex # event.req
  /\ ContextSelectedIndex = controlledIndex
  /\ selectedIndex # event.req

\* The enabled tab after / before raw index sel, wrapping around.
NextEnabled(sel) ==
  LET later == {n \in EnabledIndices : n > sel}
  IN IF later = {} THEN Min(EnabledIndices) ELSE Min(later)
PrevEnabled(sel) ==
  LET earlier == {n \in EnabledIndices : n < sel}
  IN IF earlier = {} THEN Max(EnabledIndices) ELSE Max(earlier)

\* The index a selecting key is to ask for when the tab at sel is enabled.
WrapTarget(key, sel) ==
  CASE key = "ArrowRight" -> NextEnabled(sel)
    [] key = "ArrowLeft" -> PrevEnabled(sel)
    [] key = "Home" -> Min(EnabledIndices)
    [] key = "End" -> Max(EnabledIndices)

\* C4: when the selected tab is enabled, ArrowRight asks for the next enabled
\* tab (the first enabled one if none follows), ArrowLeft for the previous
\* enabled tab (the last enabled one if none precedes), Home for the first and
\* End for the last enabled tab.
C4_NavigationWraps ==
  [][(/\ phase = "idle"
      /\ event'.kind = "key" /\ event'.key \in SelectKeys
      /\ ContextSelectedIndex \in EnabledIndices)
       => /\ ~threw'
          /\ event'.req = WrapTarget(event'.key, ContextSelectedIndex)]_vars

\* C4 witness: the enabled raw indices are 0, 2, 3 and ArrowRight has asked for
\* index 0, which it does from index 3 alone; index 0 is selected.
C4_Witness ==
  /\ phase = "idle"
  /\ EnabledIndices = {0, 2, 3}
  /\ Len(tabs) = 4
  /\ ~isControlled /\ ~readOnly
  /\ event.kind = "key" /\ event.key = "ArrowRight"
  /\ event.req = 0
  /\ selectedIndex = 0

\* C5: in the commit that follows a selection request which made a registered
\* tab the selected one, and which was not selected before, focus() is called
\* on the element of that tab and on nothing else, and userInteractedRef is
\* reset; a focus() call of a commit always comes with that reset, and the
\* later commits of the same event call focus() no more.
C5_FocusFollowsUserSelection ==
  [][(phase = "commit")
       => /\ (/\ SelectionRequest(event)
              /\ onChangeCalls = <<event.req>>
              /\ InRange(event.req)
              /\ ContextSelectedIndex = event.req
              /\ ~wasSelected[SelectedTabElement])
               => /\ focusCalls' = <<[kind |-> "tab", element |-> SelectedTabElement]>>
                  /\ ~userInteractedRef'
          /\ (focusCalls' # focusCalls) => (userInteractedRef /\ ~userInteractedRef')
          /\ (SelectionRequest(event) /\ focusCalls # <<>>)
               => focusCalls' = focusCalls]_vars

\* C5 witness: a click has selected another tab, and after the commit its
\* element is the one target of focus() and userInteractedRef is false.
C5_Witness ==
  /\ phase = "idle"
  /\ event.kind = "click"
  /\ InRange(event.req)
  /\ ContextSelectedIndex = event.req
  /\ focusCalls = <<[kind |-> "tab", element |-> SelectedTabElement]>>
  /\ ~userInteractedRef

\* C6: a change of the index prop made by the owner of a controlled Tabs on
\* its own (not in onChange) leads to no focus() call, whatever requests came
\* before it.
C6_ProgrammaticChangeKeepsFocus ==
  (event.kind = "setIndex") => (focusCalls = <<>>)

\* C7: when an uncontrolled Tabs mounts with a disabled tab at its default
\* index and some enabled tab, the first commit replaces the selection by the
\* index of an enabled tab; after the mount the selected tab, if any, is
\* enabled, and no commit of the mount calls focus().
C7_MountCorrection ==
  /\ [][(/\ event.kind = "mount" /\ phase = "commit"
         /\ ~isControlled
         /\ InRange(selectedIndex)
         /\ tabs[selectedIndex + 1].disabled
         /\ EnabledIndices # {})
          => /\ selectedIndex' \in EnabledIndices
             /\ focusCalls' = <<>>]_vars
  /\ [](event.kind = "mount"
          => /\ focusCalls = <<>>
             /\ (phase = "idle" /\ ~isControlled /\ InRange(selectedIndex)
                 /\ EnabledIndices # {})
                  => selectedIndex \in EnabledIndices)

\* C7 witness: tabs [disabled, enabled, enabled] mounted uncontrolled; the tab
\* at index 0 was the selected one of the first commit, the selection is now
\* index 1 and focus() was not called.
C7_Witness ==
  /\ event.kind = "mount"
  /\ ~isControlled
  /\ Len(tabs) = 3
  /\ tabs[1].disabled /\ ~tabs[2].disabled /\ ~tabs[3].disabled
  /\ wasSelected[tabs[1].element]
  /\ selectedIndex = 1
  /\ focusCalls = <<>>

\* C8: a press of ArrowDown on the tab list calls preventDefault, calls
\* focus() on the element of the selected panel (when there is one), leaves
\* the selected index as it was and makes no onChange call.
C8_ArrowDownFocusesPanel ==
  [][(phase = "idle" /\ event'.kind = "key" /\ event'.key = "ArrowDown")
       => /\ defaultPrevented'
          /\ selectedPanelRef # NoElement
               => focusCalls' = <<[kind |-> "panel", element |-> selectedPanelRef]>>
          /\ ContextSelectedIndex' = ContextSelectedIndex
          /\ onChangeCalls' = <<>>]_vars

\* Tab: tabIndex = isSelected ? 0 : -1
TabIndexAttribute(element) == IF TabIsSelected(element) THEN 0 ELSE -1

\* C9: whenever a tab is registered (and, here, every tab has its panel), one
\* tab is selected and has tabIndex 0, all others have -1, one panel is not
\* hidden, and the two have the same index.
C9_ExactlyOneActivePair ==
  (phase = "idle" /\ Len(tabs) >= 1 /\ Len(tabPanels) = Len(tabs))
    => \E i \in 0..(Len(tabs) - 1) :
         /\ {e \in Elements(tabs) : TabIsSelected(e)} = {tabs[i + 1].element}
         /\ {e \in Elements(tabs) : TabIndexAttribute(e) = 0} = {tabs[i + 1].element}
         /\ {e \in Elements(tabPanels) : PanelIsSelected(e)} = {tabPanels[i + 1].element}

\* C10: when no registered tab is enabled, a press of ArrowLeft, ArrowRight,
\* Home or End calls neither onSelectTab nor onChange, leaves the selected
\* index as it was and throws nothing (stated here for a selected index that
\* refers to a registered tab).
C10_NoEnabledTabNoRequest ==
  [][(/\ phase = "idle"
      /\ event'.kind = "key" /\ event'.key \in SelectKeys
      /\ InRange(ContextSelectedIndex)
      /\ EnabledIndices = {})
       => /\ event'.req = Undefined
          /\ onChangeCalls' = <<>>
          /\ ContextSelectedIndex' = ContextSelectedIndex
          /\ ~threw']_vars

\* The indices of a registry are 0..n-1, one per element, in document order.
RegistryOrdered(items) ==
  /\ Cardinality(Elements(items)) = Len(items)
  /\ {IndexOf(items, e) : e \in Elements(items)} = 0..(Len(items) - 1)
  /\ \A e1, e2 \in Elements(items) :
       (e1 < e2) => (IndexOf(items, e1) < IndexOf(items, e2))

\* From registry old to registry new one element was removed, and every
\* element after it has its index lowered by one, every other keeps its index.
ShiftedDown(old, new) ==
  \A gone \in Elements(old) \ Elements(new) :
    \A e \in Elements(new) :
      IndexOf(new, e) = IndexOf(old, e) - (IF e > gone THEN 1 ELSE 0)

\* C11: in both registries the indices of the registered descendants are
\* 0..n-1 without duplicates and follow the document order, whatever the order
\* of registration; unregistering lowers every later index by one.
C11_RegistryIndices ==
  /\ [](RegistryOrdered(tabs) /\ RegistryOrdered(tabPanels))
  /\ [][/\ (event'.kind = "unregisterTab" /\ phase = "idle")
             => (Len(tabs') = Len(tabs) - 1 /\ ShiftedDown(tabs, tabs'))
        /\ (event'.kind = "unregisterPanel" /\ phase = "idle")
             => (Len(tabPanels') = Len(tabPanels) - 1
                 /\ ShiftedDown(tabPanels, tabPanels'))]_vars

\* C11 witness: the first of three tabs was unregistered; the tabs at document
\* positions 2 and 3 now have the indices 0 and 1.
C11_Witness ==
  /\ event.kind = "unregisterTab"
  /\ Elements(tabs) = {2, 3}
  /\ IndexOf(tabs, 2) = 0
  /\ IndexOf(tabs, 3) = 1

----------------------------------------------------------------------------
\* A Tabs whose owner switches between supplying and not supplying the index
\* prop.  isControlled.current keeps the value of the first render.

\* The owner stops supplying the index prop.
RemoveIndex ==
  /\ controlledIndex # Undefined
  /\ OwnerEvent("removeIndex")
  /\ controlledIndex' = Undefined
  /\ UNCHANGED <<tabs, tabPanels, readOnly, wasSelected>>

\* The owner of an uncontrolled Tabs supplies an index prop.
SupplyIndex(v) ==
  /\ ~isControlled
  /\ v # controlledIndex
  /\ OwnerEvent("supplyIndex")
  /\ controlledIndex' = v
  /\ UNCHANGED <<tabs, tabPanels, readOnly, wasSelected>>

NextSwitch ==
  \/ Next
  \/ RemoveIndex
  \/ \E v \in IndexValues : SupplyIndex(v)

SpecSwitch == Init /\ [][NextSwitch]_vars

\* The index prop is absent on a controlled Tabs or present on an
\* uncontrolled one.
ModeSwitched == isControlled # (controlledIndex # Undefined)

\* C12: after the index prop went from supplied to absent or the reverse, no
\* click, key press or layout correction throws (stated here for an internal
\* selected index that refers to a registered tab).
C12_ModeSwitchNeverThrows ==
  (ModeSwitched /\ InRange(selectedIndex)) => ~threw

----------------------------------------------------------------------------
\* Ids and relationships of Tab and TabPanel.

\* The ids a Tabs can have: props.id, or makeId("tabs", useId()).
GroupIds == {"tabs-1", "settings"}

\* makeId: the parts joined by a dash.
makeId(id, part, index) == id \o "-" \o part \o "-" \o ToString(index)

\* Tab: id = makeId(tabsId, "tab", index)
TabId(tabsId, element) == makeId(tabsId, "tab", IndexOf(tabs, element))

\* A Tab whose aria-controls names a tab instead of a panel.
TabAriaControls_NamesTab(tabsId, element) ==
  makeId(tabsId, "tab", IndexOf(tabs, element))

\* Tab: aria-controls = makeId(tabsId, "panel", index)
TabAriaControls(tabsId, element) == makeId(tabsId, "panel", IndexOf(tabs, element))

\* TabPanel: id = makeId(tabsId, "panel", index)
PanelId(tabsId, element) == makeId(tabsId, "panel", IndexOf(tabPanels, element))

\* TabPanel: aria-labelledby = makeId(tabsId, "tab", index)
PanelAriaLabelledBy(tabsId, element) ==
  makeId(tabsId, "tab", IndexOf(tabPanels, element))

\* C13: for every group id g, the tab at index i has the id g-tab-i and
\* controls g-panel-i, the panel at index i has the id g-panel-i and is
\* labelled by g-tab-i; so a tab controls the id of the panel at its index, and
\* a panel is labelled by the id of the tab at its index.
C13_IdsAndRelationships ==
  \A g \in GroupIds :
    /\ \A i \in 0..(Len(tabs) - 1) :
         /\ TabId(g, tabs[i + 1].element) = g \o "-tab-" \o ToString(i)
         /\ TabAriaControls(g, tabs[i + 1].element) = g \o "-panel-" \o ToString(i)
    /\ \A i \in 0..(Len(tabPanels) - 1) :
         /\ PanelId(g, tabPanels[i + 1].element) = g \o "-panel-" \o ToString(i)
         /\ PanelAriaLabelledBy(g, tabPanels[i + 1].element)
              = g \o "-tab-" \o ToString(i)
    /\ \A i \in 0..(Len(tabs) - 1) :
         (i < Len(tabPanels))
           => /\ TabAriaControls(g, tabs[i + 1].element)
                   = PanelId(g, tabPanels[i + 1].element)
              /\ PanelAriaLabelledBy(g, tabPanels[i + 1].element)
                   = TabId(g, tabs[i + 1].element)

\* C13 witness: group tabs-1 with three tabs and two panels; the third tab has
\* the id tabs-1-tab-2, and the second tab controls the second panel's id,
\* tabs-1-panel-1.
C13_Witness ==
  /\ Len(tabs) = 3
  /\ Len(tabPanels) = 2
  /\ TabId("tabs-1", tabs[3].element) = "tabs-1-tab-2"
  /\ TabAriaControls("tabs-1", tabs[2].element) = "tabs-1-panel-1"
  /\ PanelId("tabs-1", tabPanels[2].element) = "tabs-1-panel-1"

----------------------------------------------------------------------------
\* Properties of navigation, correction and the interaction flag.

\* C14: when the selected index refers to no registered tab, a press of a
\* navigation key throws nothing.
C14_StaleIndexKeyNeverThrows ==
  (/\ event.kind = "key" /\ event.key \in NavKeys
   /\ ~InRange(ContextSelectedIndex))
    => ~threw

\* C15: in an uncontrolled Tabs whose selected tab is disabled, the layout
\* effect sets the selection to the next enabled tab after the selected one,
\* and to the first enabled tab only when none follows.
C15_CorrectionTakesNextEnabled ==
  [][(phase = "commit" /\ LayoutEffectCorrects /\ EnabledIndices # {})
       => selectedIndex' = NextEnabled(selectedIndex)]_vars

\* C17: once an event has been processed, commits included,
\* userInteractedRef is false.
C17_FlagIsTransient ==
  (phase = "idle") => ~userInteractedRef

\* C18: the selected index of an uncontrolled Tabs is never negative.
C18_SelectedIndexNotNegative ==
  ~isControlled => selectedIndex >= 0

\* C16: in a controlled Tabs whose selected tab is disabled, the step that
\* disables a tab and every commit leave the reported selected index and the
\* internal selected index as they were and make no onChange call.
C16_ControlledNoCorrection ==
  [][(/\ isControlled
      /\ \/ phase = "commit"
         \/ phase = "idle" /\ event'.kind = "setDisabled"
      /\ InRange(controlledIndex)
      /\ tabs'[controlledIndex + 1].disabled)
       => /\ ContextSelectedIndex' = ContextSelectedIndex
          /\ selectedIndex' = selectedIndex
          /\ onChangeCalls' = IF phase = "commit" THEN onChangeCalls ELSE <<>>]_vars

\* C16 witness: the selected tab of a controlled Tabs is disabled after a tab
\* was disabled, another tab is enabled, and the commit is over.
C16_Witness ==
  /\ phase = "idle"
  /\ isControlled
  /\ event.kind = "setDisabled"
  /\ InRange(controlledIndex)
  /\ tabs[controlledIndex + 1].disabled
  /\ EnabledIndices # {}
  /\ ContextSelectedIndex = controlledIndex
  /\ onChangeCalls = <<>>

\* C19: when some tab is enabled and the selected index is that of a
\* registered tab, the index that ArrowLeft, ArrowRight, Home or End passes to
\* onSelectTab, and the index the layout effect sets, is the raw index of an
\* enabled tab.
C19_NavigationSelectsEnabled ==
  [][/\ (/\ phase = "idle"
         /\ event'.kind = "key" /\ event'.key \in SelectKeys
         /\ InRange(ContextSelectedIndex)
         /\ EnabledIndices # {})
          => event'.req \in EnabledIndices
     /\ (phase = "commit" /\ LayoutEffectCorrects /\ EnabledIndices # {})
          => selectedIndex' \in EnabledIndices]_vars

\* C19 witness: the selected tab of a controlled Tabs is disabled and its raw
\* neighbour to the right is too; ArrowRight has asked for an enabled tab.
C19_Witness ==
  /\ phase = "commit"
  /\ isControlled
  /\ event.kind = "key" /\ event.key = "ArrowRight"
  /\ InRange(controlledIndex)
  /\ tabs[controlledIndex + 1].disabled
  /\ InRange(controlledIndex + 1)
  /\ tabs[controlledIndex + 2].disabled
  /\ event.req \in EnabledIndices

\* C20: an onChange call is that of a click or of an ArrowLeft, ArrowRight,
\* Home or End key press, with the index it asked for; a commit, an event of
\* the owner (a new index among them), another key and any event on a
\* read-only Tabs make no onChange call and do not set userInteractedRef.
C20_OnChangeOnlyOnUserRequest ==
  /\ [](onChangeCalls # <<>>
          => (SelectionRequest(event) /\ onChangeCalls = <<event.req>>))
  /\ [][/\ (phase = "commit")
             => /\ onChangeCalls' = onChangeCalls
                /\ userInteractedRef' => userInteractedRef
        /\ (phase = "idle" /\ (~SelectionRequest(event') \/ readOnly))
             => /\ onChangeCalls' = <<>>
                /\ userInteractedRef' => userInteractedRef]_vars

\* C20 witness: a tab was disabled while selected in an uncontrolled Tabs and
\* the layout effect has selected an enabled one; onChange was not called and
\* userInteractedRef is false.
C20_Witness ==
  /\ phase = "commit"
  /\ ~isControlled
  /\ event.kind = "setDisabled"
  /\ selectedIndex \in EnabledIndices
  /\ \E n \in 0..(Len(tabs) - 1) :
       /\ tabs[n + 1].disabled
       /\ wasSelected[tabs[n + 1].element]
       /\ n # selectedIndex
  /\ onChangeCalls = <<>>
  /\ ~userInteractedRef

====
